---------------------------- MODULE Spec2Model ----------------------------
(***************************************************************************)
(* A model of the MusicBrainz WS2 client of gomusicbrainz.go.              *)
(*                                                                         *)
(* Strings are sequences of one-character strings, so that concatenation,  *)
(* escaping and formatting are computed and can be compared exactly.       *)
(* A search method blocks once, inside client.Do; the model has one step   *)
(* up to that call (the method named after the entity kind) and one step   *)
(* for each way the call can end (DoFails, DoReturns).  No other operation *)
(* of the client runs while a search is blocked.                           *)
(***************************************************************************)
EXTENDS Integers, Sequences, FiniteSets

VARIABLES
    WS2RootURL,       \* WS2Client.WS2RootURL: NIL or a parsed URL
    userAgentHeader,  \* WS2Client.userAgentHeader
    clientInfo,       \* arguments of the latest NewWS2Client / SetClientInfo
    proc,             \* the host process: "running", "exited", "panicked"
    pc,               \* "idle", or "inDo" while a search blocks in client.Do
    call,             \* arguments of the search in progress or last made
    wire,             \* requests handed to the transport by the latest call
    result,           \* the list wrapper the latest search decoded into
    ret               \* what the latest operation returned, NIL if none yet

vars == <<WS2RootURL, userAgentHeader, clientInfo, proc, pc, call, wire,
          result, ret>>

\* Go's nil, for pointers and for the error interface.
NIL == [nil |-> TRUE]

\* A non-nil error value.
Error(msg) == [error |-> msg]

-----------------------------------------------------------------------------
(* Bounds and input domains *)

MaxEntries == 2

DEL == "<DEL>"   \* stands for the ASCII control character 0x7F

RootInputs ==
    { <<"h","t","t","p",":","/","/","m","b">>,
      <<"H","T","T","P",":","/","/","m","b">>,
      <<"m","b">>,
      <<DEL>>,
      <<":","m","b">> }

AppNames == { <<"a">>, <<"g","o">> }
Versions == { <<"1",".","0">> }
Contacts == { <<"c">> }

SearchTerms == { <<"a"," ","b">> }
Limits == {-1, 0, 25}
Offsets == {-1, -12}

Entities == {"e1", "e2"}
ScoreValues == {0, 100}
ListHeaders == { [Count |-> 30, Offset |-> 25] }

-----------------------------------------------------------------------------
(* Library functions the client calls, by what they compute *)

Digits == <<"0","1","2","3","4","5","6","7","8","9">>
Letters == {"a","b","c","g","h","m","o","p","s","t","w"}
UpperToLower == [c \in {"H","T","P"} |->
                    CASE c = "H" -> "h" [] c = "T" -> "t" [] c = "P" -> "p"]

RECURSIVE NatToString(_)
NatToString(n) ==
    IF n < 10 THEN <<Digits[n + 1]>>
    ELSE NatToString(n \div 10) \o <<Digits[(n % 10) + 1]>>

\* strconv.Itoa
Itoa(i) ==
    IF i < 0 THEN <<"-">> \o NatToString(0 - i) ELSE NatToString(i)

\* strings.ToLower, on a scheme
ToLower(s) ==
    [i \in 1..Len(s) |->
        IF s[i] \in DOMAIN UpperToLower THEN UpperToLower[s[i]] ELSE s[i]]

\* net/url getScheme: the scheme is the longest prefix of letters (digits,
\* "+", "-", "." after the first) that a ":" follows; a leading ":" is an
\* error; anything else means there is no scheme.
RECURSIVE getScheme(_, _)
getScheme(s, i) ==
    IF i > Len(s) THEN [scheme |-> <<>>, rest |-> s, err |-> NIL]
    ELSE IF s[i] \in Letters \cup DOMAIN UpperToLower THEN getScheme(s, i + 1)
    ELSE IF s[i] \in {"0","1","2","3","4","5","6","7","8","9","+","-","."}
         THEN IF i = 1 THEN [scheme |-> <<>>, rest |-> s, err |-> NIL]
              ELSE getScheme(s, i + 1)
    ELSE IF s[i] = ":"
         THEN IF i = 1
              THEN [scheme |-> <<>>, rest |-> <<>>,
                    err |-> Error("missing protocol scheme")]
              ELSE [scheme |-> SubSeq(s, 1, i - 1),
                    rest |-> SubSeq(s, i + 1, Len(s)), err |-> NIL]
    ELSE [scheme |-> <<>>, rest |-> s, err |-> NIL]

\* url.Parse: (nil, error) for a string holding a control character or
\* lacking its scheme, else the URL with its scheme in lower case.
Parse(rawurl) ==
    IF \E i \in 1..Len(rawurl) : rawurl[i] = DEL
    THEN [url |-> NIL, err |-> Error("invalid control character in URL")]
    ELSE LET g == getScheme(rawurl, 1)
         IN  IF g.err # NIL THEN [url |-> NIL, err |-> g.err]
             ELSE [url |-> [Scheme |-> ToLower(g.scheme), Rest |-> g.rest],
                   err |-> NIL]

\* (*url.URL).String, for a non-nil URL
String(u) ==
    IF u.Scheme # <<>> THEN u.Scheme \o <<":">> \o u.Rest ELSE u.Rest

\* url.QueryEscape: a space becomes "+"; the letters, digits and "-" of the
\* model's alphabet are unreserved and stay as they are.
RECURSIVE QueryEscape(_)
QueryEscape(s) ==
    IF s = <<>> THEN <<>>
    ELSE (IF Head(s) = " " THEN <<"+">> ELSE <<Head(s)>>)
         \o QueryEscape(Tail(s))

KeyChars(k) ==
    CASE k = "limit"  -> <<"l","i","m","i","t">>
      [] k = "offset" -> <<"o","f","f","s","e","t">>
      [] k = "query"  -> <<"q","u","e","r","y">>

\* url.Values.Encode writes the keys in sorted order.
SortedKeys == <<"limit", "offset", "query">>

RECURSIVE EncodeValues(_, _)
EncodeValues(k, vs) ==
    IF vs = <<>> THEN <<>>
    ELSE LET one  == KeyChars(k) \o <<"=">> \o QueryEscape(Head(vs))
             rest == EncodeValues(k, Tail(vs))
         IN  IF rest = <<>> THEN one ELSE one \o <<"&">> \o rest

RECURSIVE EncodeKeys(_, _)
EncodeKeys(params, keys) ==
    IF keys = <<>> THEN <<>>
    ELSE LET one  == EncodeValues(Head(keys), params[Head(keys)])
             rest == EncodeKeys(params, Tail(keys))
         IN  IF one = <<>> THEN rest
             ELSE IF rest = <<>> THEN one
             ELSE one \o <<"&">> \o rest

\* url.Values.Encode
Encode(params) == EncodeKeys(params, SortedKeys)

\* http.NewRequest parses the URL it is given and fails when url.Parse does.
NewRequest(method, urlStr) ==
    LET p == Parse(urlStr)
    IN  IF p.err # NIL THEN [req |-> NIL, err |-> p.err]
        ELSE [req |-> [Method |-> method, URL |-> urlStr, URLScheme |-> p.url.Scheme,
                       UserAgent |-> <<>>],
              err |-> NIL]

\* The schemes http.Client.Do has a transport for.
SupportedSchemes == { <<"h","t","t","p">>, <<"h","t","t","p","s">> }

\* A response body: the list header and the scored entries an XML decoder
\* reads from it, and whether the document is well formed to its end.  The
\* entries of a truncated document are those complete before the cut.
EntrySeqs ==
    UNION { [1..n -> [Entity : Entities, Score : ScoreValues]] : n \in 0..MaxEntries }

Bodies ==
    [hdr : ListHeaders, entries : EntrySeqs, wellFormed : BOOLEAN]

\* The zero value of a list wrapper (annotationListResult{}, ...).
EmptyListResult == [hdr |-> [Count |-> 0, Offset |-> 0], entries |-> <<>>]

\* xml.Decoder.Decode into a list wrapper: what was read is stored as it is
\* read, and a document that is not well formed ends the decoding with an
\* error, what was stored before staying in the wrapper.
Decode(body) ==
    [data |-> [hdr |-> body.hdr, entries |-> body.entries],
     err  |-> IF body.wellFormed THEN NIL ELSE Error("XML syntax error")]

-----------------------------------------------------------------------------
(* The client *)

NoCall == [op |-> "none", endpoint |-> <<>>, searchTerm |-> <<>>,
           limit |-> 0, offset |-> 0]

Returned(op, rsp, err) == [op |-> op, rsp |-> rsp, err |-> err]

\* NewWS2Client: the parse error is dropped, the URL kept as url.Parse gave it.
NewWS2Client(rooturl, appname, version, contact) ==
    [WS2RootURL      |-> Parse(rooturl).url,
     userAgentHeader |-> appname \o <<"/">> \o version \o <<" ","("," ">>
                         \o contact \o <<" ",")"," ">>]

Init ==
    \E rooturl \in RootInputs, appname \in AppNames,
       version \in Versions, contact \in Contacts :
        LET c == NewWS2Client(rooturl, appname, version, contact)
        IN  /\ WS2RootURL = c.WS2RootURL
            /\ userAgentHeader = c.userAgentHeader
            /\ clientInfo = <<appname, version, contact>>
            /\ proc = "running"
            /\ pc = "idle"
            /\ call = NoCall
            /\ wire = <<>>
            /\ result = EmptyListResult
            /\ ret = Returned("NewWS2Client", NIL, NIL)

\* intParamToString with every negative number taken for "no value".
intParamToString_AnyNegative(i) ==
    IF i < 0 THEN <<>> ELSE Itoa(i)

\* intParamToString returns an empty string for -1.
intParamToString(i) ==
    IF i = -1 THEN <<>> ELSE Itoa(i)

\* getReqeust, up to the blocking client.Do(req).  A nil WS2RootURL makes
\* c.WS2RootURL.String() dereference nil, which panics; an error of
\* http.NewRequest goes to log.Fatalln, which exits the process.  The
\* request handed to client.Do is the first on the wire for this call.
getReqeust(params, endpoint) ==
    IF WS2RootURL = NIL
    THEN /\ proc' = "panicked"
         /\ wire' = <<>>
         /\ UNCHANGED pc
    ELSE LET r == NewRequest("GET", String(WS2RootURL) \o endpoint \o <<"?">>
                                    \o Encode(params))
         IN  IF r.err # NIL
             THEN /\ proc' = "exited"
                  /\ wire' = <<>>
                  /\ UNCHANGED pc
             ELSE /\ wire' = <<[r.req EXCEPT !.UserAgent = userAgentHeader]>>
                  /\ pc' = "inDo"
                  /\ UNCHANGED proc

searchRequest(endpoint, searchTerm, limit, offset) ==
    getReqeust([query  |-> <<searchTerm>>,
                limit  |-> <<intParamToString(limit)>>,
                offset |-> <<intParamToString(offset)>>],
               endpoint)

\* What each implemented Search<ENTITY> does before it blocks: a fresh list
\* wrapper, then searchRequest on the endpoint of its entity kind.
Search(op, endpoint, searchTerm, limit, offset) ==
    /\ proc = "running"
    /\ pc = "idle"
    /\ call' = [op |-> op, endpoint |-> endpoint, searchTerm |-> searchTerm,
                limit |-> limit, offset |-> offset]
    /\ result' = EmptyListResult
    /\ ret' = NIL
    /\ searchRequest(endpoint, searchTerm, limit, offset)
    /\ UNCHANGED <<WS2RootURL, userAgentHeader, clientInfo>>

SearchAnnotation(searchTerm, limit, offset) ==
    Search("SearchAnnotation", <<"/","a","n","n","o","t","a","t","i","o","n">>,
           searchTerm, limit, offset)

SearchArea(searchTerm, limit, offset) ==
    Search("SearchArea", <<"/","a","r","e","a">>, searchTerm, limit, offset)

SearchArtist(searchTerm, limit, offset) ==
    Search("SearchArtist", <<"/","a","r","t","i","s","t">>,
           searchTerm, limit, offset)

SearchRelease(searchTerm, limit, offset) ==
    Search("SearchRelease", <<"/","r","e","l","e","a","s","e">>,
           searchTerm, limit, offset)

SearchReleaseGroup(searchTerm, limit, offset) ==
    Search("SearchReleaseGroup",
           <<"/","r","e","l","e","a","s","e","-","g","r","o","u","p">>,
           searchTerm, limit, offset)

SearchTag(searchTerm, limit, offset) ==
    Search("SearchTag", <<"/","t","a","g">>, searchTerm, limit, offset)

SearchCDStub(searchTerm, limit, offset) ==
    Search("SearchCDStub", <<"/","c","d","s","t","u","b">>,
           searchTerm, limit, offset)

SearchLabel(searchTerm, limit, offset) ==
    Search("SearchLabel", <<"/","l","a","b","e","l">>,
           searchTerm, limit, offset)

SearchPlace(searchTerm, limit, offset) ==
    Search("SearchPlace", <<"/","p","l","a","c","e">>,
           searchTerm, limit, offset)

ImplementedSearches ==
    {"SearchAnnotation", "SearchArea", "SearchArtist", "SearchRelease",
     "SearchReleaseGroup", "SearchTag", "SearchCDStub", "SearchLabel",
     "SearchPlace"}

\* client.Do returns an error (no transport for the scheme, connection
\* refused, ...): log.Fatalln exits the process.
DoFails ==
    /\ proc = "running"
    /\ pc = "inDo"
    /\ proc' = "exited"
    /\ pc' = "idle"
    /\ UNCHANGED <<WS2RootURL, userAgentHeader, clientInfo, call, wire,
                   result, ret>>

\* The loop of every implemented Search<ENTITY>, from entry i on:
\*     rsp.Xs = append(rsp.Xs, v.X); rsp.Scores[rsp.Xs[i]] = v.Score
RECURSIVE FlattenFrom(_, _, _)
FlattenFrom(rsp, entries, i) ==
    IF i > Len(entries) THEN rsp
    ELSE LET v  == entries[i]
             xs == Append(rsp.Entities, v.Entity)
         IN  FlattenFrom(
                 [rsp EXCEPT
                    !.Entities = xs,
                    !.Scores = [e \in DOMAIN rsp.Scores \cup {xs[i]} |->
                                   IF e = xs[i] THEN v.Score ELSE rsp.Scores[e]]],
                 entries, i + 1)

\* The loop with an entity already in the ScoreMap skipped.
RECURSIVE FlattenDistinctFrom(_, _, _)
FlattenDistinctFrom(rsp, entries, i) ==
    IF i > Len(entries) THEN rsp
    ELSE LET v == entries[i]
         IN  IF v.Entity \in DOMAIN rsp.Scores
             THEN FlattenDistinctFrom(rsp, entries, i + 1)
             ELSE FlattenDistinctFrom(
                      [rsp EXCEPT
                         !.Entities = Append(rsp.Entities, v.Entity),
                         !.Scores = [e \in DOMAIN rsp.Scores \cup {v.Entity} |->
                                        IF e = v.Entity THEN v.Score
                                        ELSE rsp.Scores[e]]],
                      entries, i + 1)

SearchResponse_SkipsDuplicates(wrapper) ==
    FlattenDistinctFrom([hdr |-> wrapper.hdr, Entities |-> <<>>,
                         Scores |-> [e \in {} |-> 0]],
                        wrapper.entries, 1)

\* The loop with the score of an entity written only the first time.
RECURSIVE FlattenFirstScoreFrom(_, _, _)
FlattenFirstScoreFrom(rsp, entries, i) ==
    IF i > Len(entries) THEN rsp
    ELSE LET v  == entries[i]
             xs == Append(rsp.Entities, v.Entity)
         IN  FlattenFirstScoreFrom(
                 [rsp EXCEPT
                    !.Entities = xs,
                    !.Scores = [e \in DOMAIN rsp.Scores \cup {xs[i]} |->
                                   IF e \in DOMAIN rsp.Scores THEN rsp.Scores[e]
                                   ELSE v.Score]],
                 entries, i + 1)

SearchResponse_KeepsFirstScore(wrapper) ==
    FlattenFirstScoreFrom([hdr |-> wrapper.hdr, Entities |-> <<>>,
                           Scores |-> [e \in {} |-> 0]],
                          wrapper.entries, 1)

\* The response every implemented Search<ENTITY> builds from its wrapper:
\* the list header copied, an empty ScoreMap, then the loop.
SearchResponse(wrapper) ==
    FlattenFrom([hdr |-> wrapper.hdr, Entities |-> <<>>,
                 Scores |-> [e \in {} |-> 0]],
                wrapper.entries, 1)

\* DoReturns with the request sent once more when the body does not decode.
DoReturns_RetriesOnDecodeError(body) ==
    /\ proc = "running"
    /\ pc = "inDo"
    /\ wire[Len(wire)].URLScheme \in SupportedSchemes
    /\ LET d == Decode(body)
       IN  /\ result' = d.data
           /\ ret' = Returned(call.op, SearchResponse(d.data), d.err)
           /\ wire' = IF d.err # NIL THEN Append(wire, wire[Len(wire)]) ELSE wire
    /\ pc' = "idle"
    /\ UNCHANGED <<WS2RootURL, userAgentHeader, clientInfo, proc, call>>

\* client.Do returns a response: getReqeust decodes its body into the
\* wrapper and returns the decoder's error, searchRequest passes it on, and
\* Search<ENTITY> returns &rsp together with it.
DoReturns(body) ==
    /\ proc = "running"
    /\ pc = "inDo"
    /\ wire[Len(wire)].URLScheme \in SupportedSchemes
    /\ LET d == Decode(body)
       IN  /\ result' = d.data
           /\ ret' = Returned(call.op, SearchResponse(d.data), d.err)
    /\ pc' = "idle"
    /\ UNCHANGED <<WS2RootURL, userAgentHeader, clientInfo, proc, call, wire>>

\* The stub returning an error for "not implemented".
Stub_ReturnsError(op, searchTerm, limit, offset) ==
    /\ proc = "running"
    /\ pc = "idle"
    /\ call' = [op |-> op, endpoint |-> <<>>, searchTerm |-> searchTerm,
                limit |-> limit, offset |-> offset]
    /\ wire' = <<>>
    /\ result' = EmptyListResult
    /\ ret' = Returned(op, NIL, Error("not implemented"))
    /\ UNCHANGED <<WS2RootURL, userAgentHeader, clientInfo, proc, pc>>

\* SearchFreedb, SearchRecording, SearchWork: return nil, nil.
Stub(op, searchTerm, limit, offset) ==
    /\ proc = "running"
    /\ pc = "idle"
    /\ call' = [op |-> op, endpoint |-> <<>>, searchTerm |-> searchTerm,
                limit |-> limit, offset |-> offset]
    /\ wire' = <<>>
    /\ result' = EmptyListResult
    /\ ret' = Returned(op, NIL, NIL)
    /\ UNCHANGED <<WS2RootURL, userAgentHeader, clientInfo, proc, pc>>

SearchFreedb(searchTerm, limit, offset) ==
    Stub("SearchFreedb", searchTerm, limit, offset)

SearchRecording(searchTerm, limit, offset) ==
    Stub("SearchRecording", searchTerm, limit, offset)

SearchWork(searchTerm, limit, offset) ==
    Stub("SearchWork", searchTerm, limit, offset)

StubbedSearches == {"SearchFreedb", "SearchRecording", "SearchWork"}

\* SetRootURL building a fresh client, the identification string lost.
SetRootURL_ClearsUserAgent(rooturl) ==
    /\ proc = "running"
    /\ pc = "idle"
    /\ LET p == Parse(rooturl)
       IN  /\ WS2RootURL' = p.url
           /\ ret' = Returned("SetRootURL", NIL, p.err)
    /\ userAgentHeader' = <<>>
    /\ call' = NoCall
    /\ wire' = <<>>
    /\ result' = EmptyListResult
    /\ UNCHANGED <<clientInfo, proc, pc>>

\* SetRootURL: c.WS2RootURL, err = url.Parse(rooturl); return err
SetRootURL(rooturl) ==
    /\ proc = "running"
    /\ pc = "idle"
    /\ LET p == Parse(rooturl)
       IN  /\ WS2RootURL' = p.url
           /\ ret' = Returned("SetRootURL", NIL, p.err)
    /\ call' = NoCall
    /\ wire' = <<>>
    /\ result' = EmptyListResult
    /\ UNCHANGED <<userAgentHeader, clientInfo, proc, pc>>

\* SetClientInfo with the "/" between name and version left out.
SetClientInfo_NoSlash(application, version, contact) ==
    /\ proc = "running"
    /\ pc = "idle"
    /\ userAgentHeader' = application \o version \o <<" ","("," ">>
                          \o contact \o <<" ",")"," ">>
    /\ clientInfo' = <<application, version, contact>>
    /\ ret' = Returned("SetClientInfo", NIL, NIL)
    /\ call' = NoCall
    /\ wire' = <<>>
    /\ result' = EmptyListResult
    /\ UNCHANGED <<WS2RootURL, proc, pc>>

\* SetClientInfo: the identification string is built again from the three
\* arguments.
SetClientInfo(application, version, contact) ==
    /\ proc = "running"
    /\ pc = "idle"
    /\ userAgentHeader' = application \o <<"/">> \o version \o <<" ","("," ">>
                          \o contact \o <<" ",")"," ">>
    /\ clientInfo' = <<application, version, contact>>
    /\ ret' = Returned("SetClientInfo", NIL, NIL)
    /\ call' = NoCall
    /\ wire' = <<>>
    /\ result' = EmptyListResult
    /\ UNCHANGED <<WS2RootURL, proc, pc>>

Next ==
    \/ \E rooturl \in RootInputs : SetRootURL(rooturl)
    \/ \E application \in AppNames, version \in Versions, contact \in Contacts :
          SetClientInfo(application, version, contact)
    \/ \E searchTerm \in SearchTerms, limit \in Limits, offset \in Offsets :
          \/ SearchAnnotation(searchTerm, limit, offset)
          \/ SearchArea(searchTerm, limit, offset)
          \/ SearchArtist(searchTerm, limit, offset)
          \/ SearchRelease(searchTerm, limit, offset)
          \/ SearchReleaseGroup(searchTerm, limit, offset)
          \/ SearchTag(searchTerm, limit, offset)
          \/ SearchCDStub(searchTerm, limit, offset)
          \/ SearchFreedb(searchTerm, limit, offset)
          \/ SearchLabel(searchTerm, limit, offset)
          \/ SearchPlace(searchTerm, limit, offset)
          \/ SearchRecording(searchTerm, limit, offset)
          \/ SearchWork(searchTerm, limit, offset)
    \/ DoFails
    \/ \E body \in Bodies : DoReturns(body)

Spec == Init /\ [][Next]_vars

-----------------------------------------------------------------------------
(* Reading a request URL back, for the properties below *)

\* The first index of character c in s, 0 if there is none.
RECURSIVE IndexFrom(_, _, _)
IndexFrom(s, c, i) ==
    IF i > Len(s) THEN 0
    ELSE IF s[i] = c THEN i
    ELSE IndexFrom(s, c, i + 1)

IndexOf(s, c) == IndexFrom(s, c, 1)

\* The part of a URL before its "?", and the part after it.
BeforeQuery(u) ==
    IF IndexOf(u, "?") = 0 THEN u ELSE SubSeq(u, 1, IndexOf(u, "?") - 1)

RawQuery(u) ==
    IF IndexOf(u, "?") = 0 THEN <<>> ELSE SubSeq(u, IndexOf(u, "?") + 1, Len(u))

\* The "&"-separated fields of a query string.
RECURSIVE Fields(_)
Fields(q) ==
    IF q = <<>> THEN <<>>
    ELSE IF IndexOf(q, "&") = 0 THEN <<q>>
    ELSE <<SubSeq(q, 1, IndexOf(q, "&") - 1)>>
         \o Fields(SubSeq(q, IndexOf(q, "&") + 1, Len(q)))

FieldKey(f) ==
    IF IndexOf(f, "=") = 0 THEN f ELSE SubSeq(f, 1, IndexOf(f, "=") - 1)

FieldValue(f) ==
    IF IndexOf(f, "=") = 0 THEN <<>> ELSE SubSeq(f, IndexOf(f, "=") + 1, Len(f))

\* Whether key k appears in query string q, and the values it appears with.
HasKey(q, k) ==
    \E i \in 1..Len(Fields(q)) : FieldKey(Fields(q)[i]) = k

ValuesOf(q, k) ==
    { FieldValue(Fields(q)[i]) :
        i \in { j \in 1..Len(Fields(q)) : FieldKey(Fields(q)[j]) = k } }

\* The number a string of decimal digits writes.
RECURSIVE DigitsValue(_)
DigitsValue(ds) ==
    IF ds = <<>> THEN 0
    ELSE 10 * DigitsValue(SubSeq(ds, 1, Len(ds) - 1))
         + (CHOOSE d \in 0..9 : Digits[d + 1] = ds[Len(ds)])

AllDigits(ds) ==
    /\ ds # <<>>
    /\ \A i \in 1..Len(ds) : \E d \in 0..9 : Digits[d + 1] = ds[i]
    /\ Len(ds) > 1 => ds[1] # "0"

\* s is the decimal string of integer n.
IsDecimalOf(s, n) ==
    IF n < 0
    THEN /\ Len(s) > 1
         /\ s[1] = "-"
         /\ AllDigits(Tail(s))
         /\ DigitsValue(Tail(s)) = 0 - n
    ELSE AllDigits(s) /\ DigitsValue(s) = n

LimitKey == <<"l","i","m","i","t">>
OffsetKey == <<"o","f","f","s","e","t">>

\* The endpoint path of each implemented search.
EndpointPath(op) ==
    CASE op = "SearchAnnotation"   -> <<"/","a","n","n","o","t","a","t","i","o","n">>
      [] op = "SearchArea"         -> <<"/","a","r","e","a">>
      [] op = "SearchArtist"       -> <<"/","a","r","t","i","s","t">>
      [] op = "SearchRelease"      -> <<"/","r","e","l","e","a","s","e">>
      [] op = "SearchReleaseGroup" ->
             <<"/","r","e","l","e","a","s","e","-","g","r","o","u","p">>
      [] op = "SearchTag"          -> <<"/","t","a","g">>
      [] op = "SearchCDStub"       -> <<"/","c","d","s","t","u","b">>
      [] op = "SearchLabel"        -> <<"/","l","a","b","e","l">>
      [] op = "SearchPlace"        -> <<"/","p","l","a","c","e">>

\* An implemented search has returned to its caller.
SearchReturned == ret # NIL /\ ret.op \in ImplementedSearches

\* The indices of the wrapper's entries that hold entity e.
Occurrences(entries, e) == { i \in 1..Len(entries) : entries[i].Entity = e }

Max(S) == CHOOSE m \in S : \A x \in S : x <= m

-----------------------------------------------------------------------------
(* Properties *)

\* C1, as stated: in the query string of every outbound request, a limit
\* (offset) of -1 leaves the key "limit" ("offset") out altogether, and any
\* other value appears under its key as its decimal string.
C1_SentinelOmitsParameter ==
    \A i \in 1..Len(wire) :
        LET q == RawQuery(wire[i].URL)
        IN  /\ IF call.limit = -1 THEN ~ HasKey(q, LimitKey)
               ELSE \E v \in ValuesOf(q, LimitKey) : IsDecimalOf(v, call.limit)
            /\ IF call.offset = -1 THEN ~ HasKey(q, OffsetKey)
               ELSE \E v \in ValuesOf(q, OffsetKey) : IsDecimalOf(v, call.offset)

\* C1, amended: in the query string of every outbound request the keys
\* "limit" and "offset" each appear exactly once; a value of -1 appears as
\* the empty string ("limit=", "offset="), and any other value, 0 and the
\* other negatives included, as its decimal string.
C1_SentinelSendsEmptyValue ==
    \A i \in 1..Len(wire) :
        LET q == RawQuery(wire[i].URL)
            n(k) == Cardinality({ j \in 1..Len(Fields(q)) : FieldKey(Fields(q)[j]) = k })
        IN  /\ n(LimitKey) = 1
            /\ n(OffsetKey) = 1
            /\ \A v \in ValuesOf(q, LimitKey) :
                  IF call.limit = -1 THEN v = <<>> ELSE IsDecimalOf(v, call.limit)
            /\ \A v \in ValuesOf(q, OffsetKey) :
                  IF call.offset = -1 THEN v = <<>> ELSE IsDecimalOf(v, call.offset)

\* A request is on the wire for a search with limit -1 and offset -12.
C1_Witness ==
    /\ Len(wire) = 1
    /\ call.op = "SearchArtist"
    /\ call.limit = -1
    /\ call.offset = -12

\* C2, as stated: an implemented search that returns a decode error returns
\* a nil response pointer with it.
C2_DecodeErrorGivesNilResponse ==
    (SearchReturned /\ ret.err # NIL) => ret.rsp = NIL

\* C3, as stated: a SetRootURL that returns an error leaves WS2RootURL as it
\* was before the call.
C3_FailedSetRootURLKeepsRoot ==
    [][ (ret' # NIL /\ ret'.op = "SetRootURL" /\ ret'.err # NIL)
            => WS2RootURL' = WS2RootURL ]_vars

\* C4, as stated: no call into the client ends the host process; every
\* search comes back to its caller.
C4_HostProcessKeepsRunning ==
    proc = "running"

\* C5: the response of an implemented search holds one entity per entry of
\* the decoded wrapper, the i-th being the entity of the i-th entry, and its
\* ScoreMap has one key per distinct entity of that sequence.
C5_SequencePreserved ==
    SearchReturned =>
        /\ Len(ret.rsp.Entities) = Len(result.entries)
        /\ \A i \in 1..Len(result.entries) :
              ret.rsp.Entities[i] = result.entries[i].Entity
        /\ Cardinality(DOMAIN ret.rsp.Scores)
             = Cardinality({ ret.rsp.Entities[i] : i \in 1..Len(ret.rsp.Entities) })

\* A search returned, without error, a list that starts with two different
\* entities.
C5_Witness ==
    /\ SearchReturned
    /\ ret.err = NIL
    /\ Len(result.entries) >= 2
    /\ result.entries[1].Entity # result.entries[2].Entity

\* C6: the ScoreMap gives each entity of the response the score of its last
\* entry in the wrapper; the sequence keeps every occurrence.
C6_LastScoreWins ==
    SearchReturned =>
        /\ DOMAIN ret.rsp.Scores = { result.entries[i].Entity : i \in 1..Len(result.entries) }
        /\ \A e \in DOMAIN ret.rsp.Scores :
              /\ ret.rsp.Scores[e]
                   = result.entries[Max(Occurrences(result.entries, e))].Score
              /\ { i \in 1..Len(ret.rsp.Entities) : ret.rsp.Entities[i] = e }
                   = Occurrences(result.entries, e)

\* A search returned the same entity twice, with two different scores.
C6_Witness ==
    /\ SearchReturned
    /\ Len(result.entries) = 2
    /\ result.entries[1].Entity = result.entries[2].Entity
    /\ result.entries[1].Score # result.entries[2].Score

\* C7: a step after which the latest call is SearchFreedb, SearchRecording
\* or SearchWork has returned a nil response and a nil error, has put no
\* request on the wire and has left the client and the process as they were.
C7_StubsReturnNothing ==
    [][ (ret' # NIL /\ ret'.op \in StubbedSearches)
            => /\ ret'.rsp = NIL
               /\ ret'.err = NIL
               /\ wire' = <<>>
               /\ WS2RootURL' = WS2RootURL
               /\ userAgentHeader' = userAgentHeader
               /\ proc' = proc ]_vars

\* SearchWork has returned on a client whose root URL is nil.
C7_Witness ==
    /\ ret # NIL
    /\ ret.op = "SearchWork"
    /\ WS2RootURL = NIL
    /\ call.limit = 25

\* The identification string as the claim writes it.
ClaimedUserAgent ==
    clientInfo[1] \o <<"/">> \o clientInfo[2] \o <<" ","("," ">>
    \o clientInfo[3] \o <<" ",")">>

\* C8, as stated: the identification string, and the User-Agent of every
\* request, is exactly "<appName>/<version> ( <contact> )" for the arguments
\* of the latest NewWS2Client or SetClientInfo.
C8_UserAgentExact ==
    /\ userAgentHeader = ClaimedUserAgent
    /\ \A i \in 1..Len(wire) : wire[i].UserAgent = ClaimedUserAgent

\* C8, amended: the identification string, and the User-Agent of every
\* request, is "<appName>/<version> ( <contact> )" followed by one space.
C8_UserAgentTrailingSpace ==
    /\ userAgentHeader = ClaimedUserAgent \o <<" ">>
    /\ \A i \in 1..Len(wire) : wire[i].UserAgent = ClaimedUserAgent \o <<" ">>

\* SetClientInfo has just returned, having named the application "go".
C8_Witness ==
    /\ ret # NIL
    /\ ret.op = "SetClientInfo"
    /\ clientInfo[1] = <<"g","o">>

\* C9: an implemented search that has returned put exactly one request on
\* the wire, a GET of the root URL followed by its endpoint path.
C9_ExactlyOneRequest ==
    SearchReturned =>
        /\ Len(wire) = 1
        /\ wire[1].Method = "GET"
        /\ BeforeQuery(wire[1].URL) = String(WS2RootURL) \o EndpointPath(ret.op)

\* SearchReleaseGroup has returned a decode error.
C9_Witness ==
    /\ SearchReturned
    /\ ret.op = "SearchReleaseGroup"
    /\ ret.err # NIL

\* C10: SetClientInfo leaves the root URL as it was, SetRootURL leaves the
\* identification string as it was, and every step of a search, implemented
\* or stubbed, leaves both as they were.
C10_ConfigurationFrame ==
    [][ /\ (ret' # NIL /\ ret'.op = "SetClientInfo")
              => WS2RootURL' = WS2RootURL
        /\ (ret' # NIL /\ ret'.op = "SetRootURL")
              => userAgentHeader' = userAgentHeader
        /\ call'.op \in ImplementedSearches \cup StubbedSearches
              => /\ WS2RootURL' = WS2RootURL
                 /\ userAgentHeader' = userAgentHeader ]_vars

\* SearchTag has returned a decode error on a client whose application name
\* is "go".
C10_Witness ==
    /\ SearchReturned
    /\ ret.op = "SearchTag"
    /\ ret.err # NIL
    /\ clientInfo[1] = <<"g","o">>

====
